---------------------------- MODULE Spec2Model ----------------------------
(***************************************************************************)
(* Model of crypto/ec/oqs_meth.c: the EVP_PKEY ASN.1 method and the        *)
(* EVP_PKEY method that bind the OQS Picnic-L1-FS signature engine into    *)
(* OpenSSL.                                                                *)
(*                                                                         *)
(* Every table entry is one atomic action.  What the host library or the   *)
(* engine decides (an allocation failing, the engine failing, the inputs   *)
(* of a call) is drawn with \E.  Heap objects carry, next to their         *)
(* fields, an account of what was allocated and how often each part was    *)
(* freed, so that leaks and double frees are visible in the state.         *)
(***************************************************************************)
EXTENDS Integers, Sequences, FiniteSets, TLC

\* ------------------------------------------------------------------ bounds
\* Number of EVP_PKEY objects the host holds.
NumKeys == 2
\* s->pub_key_len, s->priv_key_len, s->max_sig_len of the engine, scaled down.
PubKeyLen == 2
PrivKeyLen == 1
MaxSigLen == 2

Keys == 1..NumKeys
Byte == {0, 1}

\* ------------------------------------------------------------ host values
NULL == <<-1>>
NID_picnicL1FS == "NID_picnicL1FS"
Nids == {NID_picnicL1FS, "NID_ED25519"}
V_ASN1_UNDEF == "V_ASN1_UNDEF"
PTypes == {V_ASN1_UNDEF, "V_ASN1_NULL"}
KEY_TYPE_PUBLIC == "KEY_TYPE_PUBLIC"
KEY_TYPE_PRIVATE == "KEY_TYPE_PRIVATE"
EVP_PKEY_CTRL_MD == "EVP_PKEY_CTRL_MD"
EVP_PKEY_CTRL_DIGESTINIT == "EVP_PKEY_CTRL_DIGESTINIT"
CtrlTypes == {EVP_PKEY_CTRL_MD, EVP_PKEY_CTRL_DIGESTINIT, "EVP_PKEY_CTRL_PEER_KEY"}
OQS_SIG_picnic_L1_FS == 1
V_ASN1_OCTET_STRING == 4

Kinds == {"key", "rand", "sig", "pubkey", "privkey"}

\* All byte strings of length n.
Bytes(n) == [1..n -> Byte]
\* OPENSSL_malloc / OPENSSL_secure_malloc: n bytes of indeterminate memory.
OPENSSL_malloc(n) == [i \in 1..n |-> -2]

VARIABLES pkey, pk, p8, last

vars == <<pkey, pk, p8, last>>

\* ------------------------------------------------------------- OQS_KEY
\* A null OQS_KEY pointer (pkey->pkey.ptr == NULL, or oqs_key == NULL).  Next to
\* the struct's fields (s, s->rand, pubkey, privkey) an OQS_KEY carries what was
\* allocated for it, how often each part was freed, whether privkey was freed
\* without being erased over its whole length, and whether the entry that
\* attached it builds private keys (keygen, oqs_priv_decode).
NoKey ==
  [ptr |-> FALSE, s |-> FALSE, rand |-> FALSE, pubkey |-> NULL, privkey |-> NULL,
   allocd |-> [x \in Kinds |-> FALSE], frees |-> [x \in Kinds |-> 0],
   unerased |-> FALSE, asPrivate |-> FALSE]

\* The fields oqs_pkey_ctx_free reads from a live OQS_KEY.
Fields(o) ==
  [s |-> o.s, rand |-> o.rand, privkey |-> o.privkey # NULL, pubkey |-> o.pubkey # NULL]

\* What the same reads may give once the struct has been freed: each pointer
\* either still holds its old value or reads as null.
DanglingFields(o) ==
  {f \in [s : BOOLEAN, rand : BOOLEAN, privkey : BOOLEAN, pubkey : BOOLEAN] :
     /\ f.s => o.s
     /\ f.rand => o.rand
     /\ f.privkey => o.privkey # NULL
     /\ f.pubkey => o.pubkey # NULL}

\* A faulty get_oqs_alg_id: every NID maps to the Picnic selector.
get_oqs_alg_id_any(openssl_nid) == OQS_SIG_picnic_L1_FS

get_oqs_alg_id(openssl_nid) ==
  IF openssl_nid = NID_picnicL1FS THEN OQS_SIG_picnic_L1_FS ELSE -1

\* A faulty privkey_len: not taken from the engine before the engine is freed.
ctx_free_privkey_len_zero(f) == 0

\* privkey_len as oqs_pkey_ctx_free computes it.
ctx_free_privkey_len(f) == IF f.s THEN PrivKeyLen ELSE 0

\* OPENSSL_secure_clear_free(ptr, num) zeroes the first num bytes before the
\* buffer is freed.
secure_clear(buf, num) == [i \in 1..Len(buf) |-> IF i <= num THEN 0 ELSE buf[i]]

\* oqs_pkey_ctx_free(key), reading the fields f.  The pointers stay in the freed
\* struct; what a freed buffer holds is indeterminate again.
oqs_pkey_ctx_free(o, f) ==
  IF ~o.ptr THEN o
  ELSE LET privkey_len == ctx_free_privkey_len(f)
           hit == [x \in Kinds |->
                     CASE x = "rand" -> f.s /\ f.rand
                       [] x = "sig" -> f.s
                       [] x = "privkey" -> f.privkey
                       [] x = "pubkey" -> f.pubkey
                       [] x = "key" -> TRUE]
       IN [o EXCEPT !.frees = [x \in Kinds |-> IF hit[x] THEN @[x] + 1 ELSE @[x]],
                    !.unerased = @ \/ (f.privkey /\ privkey_len < Len(o.privkey)),
                    !.privkey = IF f.privkey
                                THEN secure_clear(@, privkey_len)
                                ELSE @,
                    !.pubkey = IF f.pubkey THEN OPENSSL_malloc(Len(@)) ELSE @]

\* OQS_SIG_new(rand, alg) of the engine: it has no algorithm for an unknown
\* selector, and may fail for a known one.
OQS_SIG_new(alg, fails) == IF alg = -1 \/ fails THEN FALSE ELSE TRUE

\* A faulty key-type test: the private key is allocated for every key type.
wants_private_always(keytype) == TRUE

\* keytype == KEY_TYPE_PRIVATE
wants_private(keytype) == keytype = KEY_TYPE_PRIVATE

InitFails == {"none", "zalloc", "rand", "sig", "pubkey", "privkey"}

\* oqs_key_init(&p, nid, keytype); `fail` is the step the host makes fail.
\* ok: the return value; p: *p_oqs_key afterwards; obj: the OQS_KEY the call
\* built, with the account of its parts; errs: the OQSerr calls made.
oqs_key_init(nid, keytype, fail) ==
  LET oqs_alg_id == get_oqs_alg_id(nid)
      k0 == [NoKey EXCEPT !.ptr = TRUE, !.allocd["key"] = TRUE]
      k1 == [k0 EXCEPT !.allocd["rand"] = TRUE]
      k2 == [k1 EXCEPT !.s = TRUE, !.rand = TRUE, !.allocd["sig"] = TRUE]
      k3 == [k2 EXCEPT !.pubkey = OPENSSL_malloc(PubKeyLen), !.allocd["pubkey"] = TRUE]
      k4 == [k3 EXCEPT !.privkey = OPENSSL_malloc(PrivKeyLen), !.allocd["privkey"] = TRUE]
      err(o) == [ok |-> FALSE, p |-> NoKey, errs |-> 1,
                 obj |-> oqs_pkey_ctx_free(o, Fields(o))]
  IN  IF fail = "zalloc" THEN err(NoKey)
      ELSE IF fail = "rand" THEN err(k0)
      ELSE IF ~OQS_SIG_new(oqs_alg_id, fail = "sig") THEN err(k1)
      ELSE IF fail = "pubkey" THEN err(k2)
      ELSE IF wants_private(keytype)
           THEN IF fail = "privkey" THEN err(k3)
                ELSE [ok |-> TRUE, p |-> k4, errs |-> 0, obj |-> k4]
           ELSE [ok |-> TRUE, p |-> k3, errs |-> 0, obj |-> k3]

\* ------------------------------------------------------------ containers
\* An X509_PUBKEY or PKCS8_PRIV_KEY_INFO: ptype is what X509_ALGOR_get0 yields
\* ("none" when palg is NULL), data the key bytes.  rtpub and rtpriv remember the
\* key bytes of the OQS_KEY an encode entry took them from, NULL for a container
\* that comes from elsewhere.
Container(t, d) ==
  [set |-> TRUE, ptype |-> t, data |-> d, rtpub |-> NULL, rtpriv |-> NULL]

NoContainer == [Container(V_ASN1_UNDEF, NULL) EXCEPT !.set = FALSE]

Zeros(n) == [i \in 1..n |-> 0]

\* The key pair the engine generates here, and the host's well-formed containers
\* carry: alternating bits, so that the private and the public part differ and
\* no byte repeats its neighbour.
Pattern(n, b) == [i \in 1..n |-> (i + b) % 2]
KeyPairs == {[priv |-> Pattern(PrivKeyLen, 0), pub |-> Pattern(PubKeyLen, 1)]}

\* i2d_ASN1_OCTET_STRING: tag, length, contents.
i2d_ASN1_OCTET_STRING(buf) == <<V_ASN1_OCTET_STRING, Len(buf)>> \o buf

\* d2i_ASN1_OCTET_STRING(NULL, &p, plen): the contents, or NULL when the bytes do
\* not start with a complete octet string.
d2i_ASN1_OCTET_STRING(p) ==
  IF /\ Len(p) >= 2
     /\ p[1] = V_ASN1_OCTET_STRING
     /\ p[2] >= 0
     /\ p[2] <= Len(p) - 2
  THEN SubSeq(p, 3, 2 + p[2])
  ELSE NULL

\* if (palg != NULL) { ... if (ptype != V_ASN1_UNDEF) reject }
params_rejected(tag) == tag # "none" /\ tag # V_ASN1_UNDEF

\* pklen != oqs_key->s->pub_key_len
pub_len_mismatch(pklen) == pklen # PubKeyLen

\* A faulty length check: only a payload that is too short is refused.
priv_len_mismatch_short(plen) == plen < PrivKeyLen + PubKeyLen

\* plen != oqs_key->s->priv_key_len + oqs_key->s->pub_key_len
priv_len_mismatch(plen) == plen # PrivKeyLen + PubKeyLen

\* A faulty buffer layout: the public key is stored first.
priv_encode_buf_pubfirst(o) ==
  SubSeq(o.pubkey, 1, PubKeyLen) \o SubSeq(o.privkey, 1, PrivKeyLen)

\* The buffer oqs_priv_encode fills: the private key, then the public key.
priv_encode_buf(o) ==
  SubSeq(o.privkey, 1, PrivKeyLen) \o SubSeq(o.pubkey, 1, PubKeyLen)

\* The two memcpy calls of oqs_priv_decode.
priv_decode_privkey(p) == SubSeq(p, 1, PrivKeyLen)
priv_decode_pubkey(p) == SubSeq(p, PrivKeyLen + 1, PrivKeyLen + PubKeyLen)

Tags == PTypes \cup {"none"}

\* Public-key containers the host may hand to oqs_pub_decode: well formed, and
\* with any parameter tag and no data, the key pair's, or data of a wrong length.
GoodPub == {Container(V_ASN1_UNDEF, kp.pub) : kp \in KeyPairs}
PubInputs ==
  {Container(t, d) :
     t \in Tags,
     d \in {NULL} \cup {Zeros(n) : n \in (0..(PubKeyLen + 1)) \ {PubKeyLen}}
           \cup {kp.pub : kp \in KeyPairs}}

\* Private-key containers the host may hand to oqs_priv_decode: well formed, and
\* with any parameter tag and pkey bytes that are empty, carry another tag, are
\* cut short, or hold an octet string: the key pair's, or one of a wrong length.
GoodP8 ==
  {Container(V_ASN1_UNDEF, i2d_ASN1_OCTET_STRING(kp.priv \o kp.pub)) : kp \in KeyPairs}
P8Inputs ==
  {Container(t, d) :
     t \in Tags,
     d \in {<< >>, <<V_ASN1_OCTET_STRING + 1, 0>>, <<V_ASN1_OCTET_STRING, 1>>}
           \cup {i2d_ASN1_OCTET_STRING(Zeros(n)) :
                   n \in (0..(PrivKeyLen + PubKeyLen + 1)) \ {PrivKeyLen + PubKeyLen}}
           \cup {i2d_ASN1_OCTET_STRING(kp.priv \o kp.pub) : kp \in KeyPairs}}

\* -------------------------------------------------------------- the calls
\* What the last call did: its return value, the OQSerr calls it made, the
\* OQS_KEY it built and did not attach, its temporary buffers, the engine
\* operation it invoked, and the inputs the properties speak about (fault: the
\* host or engine step that failed in the call).
Result(op, k, ret, errs) ==
  [op |-> op, k |-> k, ret |-> ret, errs |-> errs, obj |-> NoKey,
   oct |-> "none", buf |-> "none", penc |-> "none", engine |-> "none",
   siglen |-> 0, arg |-> "", num |-> 0, flag |-> FALSE, nid |-> "", crash |-> FALSE,
   fault |-> "none", rtpub |-> NULL, rtpriv |-> NULL]

\* The record behind a key is live: not yet passed to the free entry.
Live(k) == pkey[k].frees["key"] = 0

\* The program is followed no further once a call did not return or the heap is
\* corrupt (a record was freed twice).
Running == ~last.crash /\ \A k \in Keys : pkey[k].frees["key"] <= 1

\* The host creates its EVP_PKEY objects one after the other: a key is filled only
\* when the keys before it are, and only while it has no record.  EVP_PKEY_assign,
\* whose result the entries ignore, then stores the record in it.
Fresh(k) == ~pkey[k].ptr /\ \A j \in Keys : j < k => pkey[j].ptr

Init ==
  /\ pkey = [k \in Keys |-> NoKey]
  /\ pk = NoContainer
  /\ p8 = NoContainer
  /\ last = Result("init", 0, 1, 0)

oqs_pub_encode(k) ==
  /\ Running /\ Live(k)
  /\ LET oqs_key == pkey[k] IN
     IF ~oqs_key.ptr \/ ~oqs_key.s \/ oqs_key.pubkey = NULL
     THEN /\ last' = Result("pub_encode", k, 0, 1)
          /\ UNCHANGED <<pkey, pk, p8>>
     ELSE \E fail \in {"none", "memdup", "set0"} :
            LET penc == SubSeq(oqs_key.pubkey, 1, PubKeyLen)
                base(ret, errs) == [Result("pub_encode", k, ret, errs) EXCEPT !.fault = fail]
            IN
            IF fail = "memdup"
            THEN /\ last' = base(0, 1)
                 /\ UNCHANGED <<pkey, pk, p8>>
            ELSE IF fail = "set0"
            THEN /\ last' = [base(0, 1) EXCEPT !.penc = "freed"]
                 /\ UNCHANGED <<pkey, pk, p8>>
            ELSE /\ pk' = [Container(V_ASN1_UNDEF, penc) EXCEPT !.rtpub = oqs_key.pubkey]
                 /\ last' = [base(1, 0) EXCEPT !.penc = "owned"]
                 /\ UNCHANGED <<pkey, p8>>

\* oqs_pub_decode on the container c; getOk: what X509_PUBKEY_get0_param returns.
pub_decode(k, id, c, getOk, fail) ==
  LET tag == c.ptype
      pklen == IF c.data = NULL THEN 0 ELSE Len(c.data)
      r == oqs_key_init(id, KEY_TYPE_PUBLIC, fail)
      base(ret, errs) ==
        [Result("pub_decode", k, ret, errs) EXCEPT
           !.arg = tag, !.num = pklen, !.flag = (c.data = NULL), !.nid = id,
           !.fault = IF getOk THEN fail ELSE "get0", !.rtpub = c.rtpub]
  IN  IF ~getOk
      THEN /\ last' = base(0, 0)
           /\ UNCHANGED <<pkey, pk, p8>>
      ELSE IF c.data = NULL
      THEN /\ last' = base(0, 1)
           /\ UNCHANGED <<pkey, pk, p8>>
      ELSE IF params_rejected(tag)
      THEN /\ last' = base(0, 1)
           /\ UNCHANGED <<pkey, pk, p8>>
      ELSE IF ~r.ok
      THEN /\ last' = [base(0, r.errs + 1) EXCEPT !.obj = r.obj]
           /\ UNCHANGED <<pkey, pk, p8>>
      ELSE IF pub_len_mismatch(pklen)
      THEN /\ last' = [base(0, 1) EXCEPT !.obj = oqs_pkey_ctx_free(r.p, Fields(r.p))]
           /\ UNCHANGED <<pkey, pk, p8>>
      ELSE /\ pkey' = [pkey EXCEPT ![k] = [r.p EXCEPT !.pubkey = SubSeq(c.data, 1, pklen),
                                     !.asPrivate = FALSE]]
           /\ last' = base(1, 0)
           /\ UNCHANGED <<pk, p8>>

\* The host decodes into a fresh EVP_PKEY: any container with the Picnic method
\* and no fault; a well-formed one (the one oqs_pub_encode filled among them) with
\* any method id and any allocation fault; a well-formed one with
\* X509_PUBKEY_get0_param failing.
oqs_pub_decode(k) ==
  /\ Running /\ Fresh(k)
  /\ \/ \E c \in PubInputs : pub_decode(k, NID_picnicL1FS, c, TRUE, "none")
     \/ \E c \in GoodPub \cup {x \in {pk} : x.set}, id \in Nids,
           fail \in InitFails \ {"privkey"} :
          pub_decode(k, id, c, TRUE, fail)
     \/ \E c \in GoodPub : pub_decode(k, NID_picnicL1FS, c, FALSE, "none")

\* oqs_priv_decode on the container c; getOk: what PKCS8_pkey_get0 returns;
\* octFail: d2i_ASN1_OCTET_STRING fails to allocate.
priv_decode(k, id, c, getOk, octFail, fail) ==
  LET tag == c.ptype
      oct == IF octFail THEN NULL ELSE d2i_ASN1_OCTET_STRING(c.data)
      p == oct
      plen == IF oct = NULL THEN 0 ELSE Len(oct)
      held == IF oct = NULL THEN "none" ELSE "live"
      r == oqs_key_init(id, KEY_TYPE_PRIVATE, fail)
      base(ret, errs) ==
        [Result("priv_decode", k, ret, errs) EXCEPT
           !.arg = tag, !.num = plen, !.flag = (oct = NULL), !.nid = id, !.oct = held,
           !.fault = IF octFail THEN "d2i" ELSE fail,
           !.rtpub = c.rtpub, !.rtpriv = c.rtpriv]
  IN  IF ~getOk
      THEN /\ last' = [Result("priv_decode", k, 0, 0) EXCEPT
                         !.arg = tag, !.nid = id, !.fault = "get0"]
           /\ UNCHANGED <<pkey, pk, p8>>
      ELSE IF params_rejected(tag)
      THEN /\ last' = base(0, 1)
           /\ UNCHANGED <<pkey, pk, p8>>
      ELSE IF ~r.ok
      THEN /\ last' = [base(0, r.errs + 1) EXCEPT !.obj = r.obj]
           /\ UNCHANGED <<pkey, pk, p8>>
      ELSE IF priv_len_mismatch(plen)
      THEN /\ last' = [base(0, 1) EXCEPT !.obj = oqs_pkey_ctx_free(r.p, Fields(r.p))]
           /\ UNCHANGED <<pkey, pk, p8>>
      ELSE /\ pkey' = [pkey EXCEPT ![k] =
                         [r.p EXCEPT !.privkey = priv_decode_privkey(p),
                                     !.pubkey = priv_decode_pubkey(p),
                                     !.asPrivate = TRUE]]
           /\ last' = [base(1, 0) EXCEPT !.oct = "freed"]
           /\ UNCHANGED <<pk, p8>>

\* As for oqs_pub_decode; the last case has PKCS8_pkey_get0 or
\* d2i_ASN1_OCTET_STRING fail.
oqs_priv_decode(k) ==
  /\ Running /\ Fresh(k)
  /\ \/ \E c \in P8Inputs : priv_decode(k, NID_picnicL1FS, c, TRUE, FALSE, "none")
     \/ \E c \in GoodP8 \cup {x \in {p8} : x.set}, id \in Nids, fail \in InitFails :
          priv_decode(k, id, c, TRUE, FALSE, fail)
     \/ \E c \in GoodP8, hostFault \in {"get0", "d2i"} :
          priv_decode(k, NID_picnicL1FS, c, hostFault # "get0", hostFault = "d2i", "none")

\* oqs_priv_encode.  It reads oqskey->s before any check, and copies from
\* oqskey->privkey whatever it is: with a null record or a public-only record the
\* call does not return (last.crash).
oqs_priv_encode(k) ==
  /\ Running /\ Live(k)
  /\ LET oqskey == pkey[k] IN
     IF ~oqskey.ptr
     THEN /\ last' = [Result("priv_encode", k, 0, 0) EXCEPT !.crash = TRUE]
          /\ UNCHANGED <<pkey, pk, p8>>
     ELSE \E fail \in {"none", "malloc", "i2d", "set0"} :
            LET base(ret, errs) == [Result("priv_encode", k, ret, errs) EXCEPT !.fault = fail]
            IN
            IF fail = "malloc"
            THEN /\ last' = base(0, 1)
                 /\ UNCHANGED <<pkey, pk, p8>>
            ELSE IF oqskey.privkey = NULL
            THEN /\ last' = [base(0, 0) EXCEPT !.crash = TRUE, !.buf = "live"]
                 /\ UNCHANGED <<pkey, pk, p8>>
            ELSE IF fail = "i2d"
            THEN /\ last' = [base(0, 1) EXCEPT !.buf = "live"]
                 /\ UNCHANGED <<pkey, pk, p8>>
            ELSE IF fail = "set0"
            THEN /\ last' = [base(0, 1) EXCEPT !.buf = "cleared", !.penc = "cleared"]
                 /\ UNCHANGED <<pkey, pk, p8>>
            ELSE /\ p8' = [Container(V_ASN1_UNDEF,
                                     i2d_ASN1_OCTET_STRING(priv_encode_buf(oqskey)))
                             EXCEPT !.rtpub = oqskey.pubkey, !.rtpriv = oqskey.privkey]
                 /\ last' = [base(1, 0) EXCEPT !.buf = "cleared", !.penc = "owned"]
                 /\ UNCHANGED <<pkey, pk>>

\* A faulty oqs_size: the failure is not reported.
size_result_silent(oqskey) ==
  IF ~oqskey.ptr \/ ~oqskey.s THEN [ret |-> 0, errs |-> 0]
  ELSE [ret |-> MaxSigLen, errs |-> 0]

\* oqs_size: [ret, errs].
size_result(oqskey) ==
  IF ~oqskey.ptr \/ ~oqskey.s THEN [ret |-> 0, errs |-> 1]
  ELSE [ret |-> MaxSigLen, errs |-> 0]

oqs_size(k) ==
  /\ Running /\ Live(k)
  /\ LET r == size_result(pkey[k]) IN last' = Result("size", k, r.ret, r.errs)
  /\ UNCHANGED <<pkey, pk, p8>>

\* oqs_free: the record is released and pkey->pkey.ptr keeps pointing at it.  A
\* further call reads the fields of the freed struct.
oqs_free(k) ==
  /\ Running
  /\ \E f \in (IF Live(k) THEN {Fields(pkey[k])} ELSE DanglingFields(pkey[k])) :
       pkey' = [pkey EXCEPT ![k] = oqs_pkey_ctx_free(@, f)]
  /\ last' = Result("free", k, 1, 0)
  /\ UNCHANGED <<pk, p8>>

\* oqs_item_verify: [ret, errs]; initOk: what EVP_DigestVerifyInit returns.
item_verify_result(nid, ptype, initOk) ==
  IF nid # NID_picnicL1FS \/ ptype # V_ASN1_UNDEF THEN [ret |-> 0, errs |-> 1]
  ELSE IF ~initOk THEN [ret |-> 0, errs |-> 0]
  ELSE [ret |-> 2, errs |-> 0]

oqs_item_verify ==
  /\ Running
  /\ \E nid \in Nids, ptype \in PTypes, initOk \in BOOLEAN :
       LET r == item_verify_result(nid, ptype, initOk) IN
       last' = [Result("item_verify", 0, r.ret, r.errs) EXCEPT
                  !.arg = ptype, !.nid = nid,
                  !.fault = IF initOk THEN "none" ELSE "EVP_DigestVerifyInit"]
  /\ UNCHANGED <<pkey, pk, p8>>

\* pkey_oqs_keygen; kgOk: OQS_SIG_keygen returns OQS_SUCCESS.
pkey_oqs_keygen(k) ==
  /\ Running /\ Fresh(k)
  /\ \E id \in Nids, fail \in InitFails, kgOk \in BOOLEAN :
       LET r == oqs_key_init(id, KEY_TYPE_PRIVATE, fail)
           base(ret, errs) ==
             [Result("keygen", k, ret, errs) EXCEPT
                !.nid = id, !.fault = IF r.ok /\ ~kgOk THEN "OQS_SIG_keygen" ELSE fail]
       IN
       IF ~r.ok
       THEN /\ last' = [base(0, r.errs + 1) EXCEPT !.obj = r.obj]
            /\ UNCHANGED <<pkey, pk, p8>>
       ELSE IF ~kgOk
       THEN /\ last' = [base(0, 1) EXCEPT
                          !.obj = oqs_pkey_ctx_free(r.p, Fields(r.p)), !.engine = "keygen"]
            /\ UNCHANGED <<pkey, pk, p8>>
       ELSE \E kp \in KeyPairs :
              /\ pkey' = [pkey EXCEPT ![k] =
                            [r.p EXCEPT !.privkey = kp.priv, !.pubkey = kp.pub,
                                        !.asPrivate = TRUE]]
              /\ last' = [base(1, 0) EXCEPT !.engine = "keygen"]
              /\ UNCHANGED <<pk, p8>>

\* A faulty pkey_oqs_digestsign: the private key is not checked.
digestsign_result_nocheck(oqs_key, sigNull, siglen, engOk, outlen) ==
  IF ~oqs_key.ptr \/ ~oqs_key.s
  THEN [ret |-> 0, errs |-> 1, engine |-> "none", siglen |-> siglen]
  ELSE IF sigNull
  THEN [ret |-> 1, errs |-> 0, engine |-> "none", siglen |-> MaxSigLen]
  ELSE IF siglen < MaxSigLen
  THEN [ret |-> 0, errs |-> 1, engine |-> "none", siglen |-> siglen]
  ELSE IF ~engOk
  THEN [ret |-> 0, errs |-> 1, engine |-> "sign", siglen |-> siglen]
  ELSE [ret |-> 1, errs |-> 0, engine |-> "sign", siglen |-> outlen]

\* pkey_oqs_digestsign: sigNull: sig == NULL; siglen: *siglen on entry; engOk and
\* outlen: what OQS_SIG_sign returns and stores in *siglen.
digestsign_result(oqs_key, sigNull, siglen, engOk, outlen) ==
  IF ~oqs_key.ptr \/ ~oqs_key.s \/ oqs_key.privkey = NULL
  THEN [ret |-> 0, errs |-> 1, engine |-> "none", siglen |-> siglen]
  ELSE IF sigNull
  THEN [ret |-> 1, errs |-> 0, engine |-> "none", siglen |-> MaxSigLen]
  ELSE IF siglen < MaxSigLen
  THEN [ret |-> 0, errs |-> 1, engine |-> "none", siglen |-> siglen]
  ELSE IF ~engOk
  THEN [ret |-> 0, errs |-> 1, engine |-> "sign", siglen |-> siglen]
  ELSE [ret |-> 1, errs |-> 0, engine |-> "sign", siglen |-> outlen]

pkey_oqs_digestsign(k) ==
  /\ Running /\ Live(k)
  /\ \E sigNull \in BOOLEAN, siglen \in {MaxSigLen - 1, MaxSigLen},
        engOk \in BOOLEAN, outlen \in {MaxSigLen - 1, MaxSigLen} :
       LET r == digestsign_result(pkey[k], sigNull, siglen, engOk, outlen) IN
       last' = [Result("digestsign", k, r.ret, r.errs) EXCEPT
                  !.engine = r.engine, !.siglen = r.siglen, !.flag = sigNull,
                  !.num = siglen,
                  !.fault = IF r.engine = "sign" /\ ~engOk THEN "OQS_SIG_sign" ELSE "none"]
  /\ UNCHANGED <<pkey, pk, p8>>

\* pkey_oqs_digestverify: [ret, errs, engine].
digestverify_result(oqs_key, sigNull, tbsNull, engOk) ==
  IF ~oqs_key.ptr \/ ~oqs_key.s \/ oqs_key.pubkey = NULL \/ sigNull \/ tbsNull
  THEN [ret |-> 0, errs |-> 1, engine |-> "none"]
  ELSE IF ~engOk
  THEN [ret |-> 0, errs |-> 1, engine |-> "verify"]
  ELSE [ret |-> 1, errs |-> 0, engine |-> "verify"]

pkey_oqs_digestverify(k) ==
  /\ Running /\ Live(k)
  /\ \E sigNull \in BOOLEAN, tbsNull \in BOOLEAN, engOk \in BOOLEAN :
       LET r == digestverify_result(pkey[k], sigNull, tbsNull, engOk) IN
       last' = [Result("digestverify", k, r.ret, r.errs) EXCEPT
                  !.engine = r.engine, !.flag = sigNull]
  /\ UNCHANGED <<pkey, pk, p8>>

\* A faulty pkey_oqs_ctrl: any digest is accepted.
ctrl_result_anymd(type, p2Null) ==
  IF type = EVP_PKEY_CTRL_MD THEN [ret |-> 1, errs |-> 0]
  ELSE IF type = EVP_PKEY_CTRL_DIGESTINIT THEN [ret |-> 1, errs |-> 0]
  ELSE [ret |-> -2, errs |-> 0]

\* pkey_oqs_ctrl: [ret, errs]; p2Null: p2 == NULL.
ctrl_result(type, p2Null) ==
  IF type = EVP_PKEY_CTRL_MD
  THEN IF p2Null THEN [ret |-> 1, errs |-> 0] ELSE [ret |-> 0, errs |-> 1]
  ELSE IF type = EVP_PKEY_CTRL_DIGESTINIT THEN [ret |-> 1, errs |-> 0]
  ELSE [ret |-> -2, errs |-> 0]

pkey_oqs_ctrl ==
  /\ Running
  /\ \E type \in CtrlTypes, p2Null \in BOOLEAN :
       LET r == ctrl_result(type, p2Null) IN
       last' = [Result("ctrl", 0, r.ret, r.errs) EXCEPT !.arg = type, !.flag = p2Null]
  /\ UNCHANGED <<pkey, pk, p8>>

Next ==
  \/ pkey_oqs_ctrl
  \/ \E k \in Keys : oqs_pub_decode(k)
  \/ \E k \in Keys : oqs_pub_encode(k)
  \/ \E k \in Keys : oqs_priv_decode(k)
  \/ \E k \in Keys : oqs_priv_encode(k)
  \/ \E k \in Keys : oqs_size(k)
  \/ \E k \in Keys : oqs_free(k)
  \/ oqs_item_verify
  \/ \E k \in Keys : pkey_oqs_keygen(k)
  \/ \E k \in Keys : pkey_oqs_digestsign(k)
  \/ \E k \in Keys : pkey_oqs_digestverify(k)

Spec == Init /\ [][Next]_vars

\* ------------------------------------------------------------ properties
Decodes == {"pub_decode", "priv_decode"}
Constructors == {"keygen", "pub_decode", "priv_decode"}

\* What oqs_priv_decode recovers from what oqs_priv_encode stores for the key
\* bytes priv and pub is priv and pub again.
PayloadRoundTrip(priv, pub) ==
  LET p == d2i_ASN1_OCTET_STRING(
             i2d_ASN1_OCTET_STRING(priv_encode_buf([privkey |-> priv, pubkey |-> pub])))
  IN  /\ p # NULL
      /\ Len(p) = PrivKeyLen + PubKeyLen
      /\ priv_decode_privkey(p) = priv
      /\ priv_decode_pubkey(p) = pub

\* C1: a container an encode entry filled decodes, when the host reports no
\* fault, to a record with the key bytes of the record that was encoded: the
\* public bytes for oqs_pub_decode, the private and the public bytes for
\* oqs_priv_decode; and the private-key payload splits back into the two parts
\* for all key bytes.
C1_RoundTrip ==
  /\ \A priv \in Bytes(PrivKeyLen), pub \in Bytes(PubKeyLen) : PayloadRoundTrip(priv, pub)
  /\ (last.op \in Decodes /\ last.rtpub # NULL /\ last.fault = "none"
        /\ last.nid = NID_picnicL1FS)
       => last.ret = 1
  /\ (last.op = "pub_decode" /\ last.rtpub # NULL /\ last.ret = 1)
       => pkey[last.k].pubkey = last.rtpub
  /\ (last.op = "priv_decode" /\ last.rtpub # NULL /\ last.ret = 1)
       => /\ pkey[last.k].privkey = last.rtpriv
          /\ pkey[last.k].pubkey = last.rtpub

C1_Witness ==
  /\ last.op = "priv_decode" /\ last.ret = 1 /\ last.rtpriv # NULL
  /\ pk.set
  /\ pkey[last.k].privkey # pkey[last.k].pubkey

\* C2: oqs_pub_decode fails when the parameter tag is not absent or the data
\* length is not the public-key length; oqs_priv_decode fails when the parameter
\* tag is not absent, the octet string is absent or its length is not the
\* private-key length plus the public-key length; the target key then has no
\* record.
C2_DecodeRejects ==
  /\ (last.op = "pub_decode"
        /\ (last.arg \notin {V_ASN1_UNDEF, "none"} \/ last.num # PubKeyLen))
       => last.ret = 0 /\ ~pkey[last.k].ptr
  /\ (last.op = "priv_decode"
        /\ (last.arg \notin {V_ASN1_UNDEF, "none"} \/ last.flag
              \/ last.num # PrivKeyLen + PubKeyLen))
       => last.ret = 0 /\ ~pkey[last.k].ptr

C2_Witness ==
  /\ last.op = "priv_decode" /\ last.arg = V_ASN1_UNDEF /\ ~last.flag
  /\ last.num = PrivKeyLen + PubKeyLen + 1
  /\ last.fault = "none" /\ last.ret = 0 /\ last.obj.ptr

\* C3: with a method id other than the Picnic one, oqs_key_init fails with an
\* error reported and hands out no record, whatever else happens, and keygen and
\* both decode entries return 0 and attach no record.
C3_UnknownId ==
  /\ \A id \in Nids \ {NID_picnicL1FS}, kt \in {KEY_TYPE_PUBLIC, KEY_TYPE_PRIVATE},
        fail \in InitFails :
       LET r == oqs_key_init(id, kt, fail) IN ~r.ok /\ ~r.p.ptr /\ r.errs >= 1
  /\ (last.op \in Constructors /\ last.nid # NID_picnicL1FS)
       => last.ret = 0 /\ ~pkey[last.k].ptr

C3_Witness ==
  /\ last.op = "keygen" /\ last.nid # NID_picnicL1FS /\ last.fault = "none"
  /\ last.ret = 0 /\ last.errs > 0

\* Every OQS_KEY of the state: those behind the keys and the one the last call
\* built without attaching it.
Objects == {pkey[k] : k \in Keys} \cup {last.obj}

FreedAtMostOnce(o) == (\A x \in Kinds : o.frees[x] <= 1) /\ ~o.unerased

\* C4 as claimed: no part of any record is ever freed twice, nor is privkey freed
\* unerased, also when the free entry is called twice on a key.
C4_Original == \A o \in Objects : FreedAtMostOnce(o)

\* C4 as amended: a record passed to oqs_pkey_ctx_free once (frees["key"] counts
\* the calls), by the free entry or by a failure path after partial
\* construction, has no part freed twice and privkey erased before it is freed;
\* a null record is never touched.
C4_Teardown ==
  /\ \A o \in Objects : o.frees["key"] <= 1 => FreedAtMostOnce(o)
  /\ \A o \in Objects : ~o.ptr => \A x \in Kinds : o.frees[x] = 0
  /\ \A o \in Objects : \A x \in Kinds : o.frees[x] > 0 => o.allocd[x]

C4_Witness ==
  /\ last.op = "keygen" /\ last.fault = "privkey" /\ last.obj.frees["pubkey"] = 1
  /\ \E k \in Keys : pkey[k].frees["privkey"] = 1

\* C5: oqs_priv_encode returns with its concatenation buffer erased and freed
\* (or never allocated).
C5_BufErased ==
  (last.op = "priv_encode" /\ ~last.crash) => last.buf \in {"none", "cleared"}

\* C6: after a failing keygen or decode everything the call allocated has been
\* freed: every part of the OQS_KEY it built, and the decoded octet string.
C6_NoLeak ==
  (last.op \in Constructors /\ last.ret = 0)
    => /\ \A x \in Kinds : last.obj.allocd[x] => last.obj.frees[x] >= 1
       /\ last.oct # "live"

Failed == last.op # "init" /\ last.op # "free" /\ ~last.crash /\ last.ret <= 0

\* C7 as claimed: every entry that returns a failure value has called OQSerr.
C7_Original == Failed => last.errs >= 1

\* C7 as amended: every entry that returns a failure value has called OQSerr,
\* except the control entry returning -2 for a request it does not know, the
\* decode entries when the host's container accessor fails, and item-verify when
\* EVP_DigestVerifyInit fails.
C7_ErrorsReported ==
  Failed =>
    \/ last.errs >= 1
    \/ last.op = "ctrl" /\ last.ret = -2
    \/ last.op \in Decodes /\ last.fault = "get0"
    \/ last.op = "item_verify" /\ last.fault = "EVP_DigestVerifyInit"

C7_Witness ==
  /\ last.op = "pub_decode" /\ last.fault = "pubkey" /\ last.ret = 0 /\ last.errs = 2

PrivPresent(o) == o.privkey # NULL

C8_Inv ==
  \A k \in Keys :
    pkey[k].ptr =>
      /\ pkey[k].s
      /\ pkey[k].pubkey # NULL
      /\ PrivPresent(pkey[k]) <=> pkey[k].asPrivate

\* C8: a record behind a key has its engine and its public key, and a private
\* key exactly when keygen or oqs_priv_decode attached it; no entry changes
\* whether a record has a private key.
C8_RecordInvariant ==
  /\ []C8_Inv
  /\ [][\A k \in Keys : pkey[k].ptr => (PrivPresent(pkey'[k]) <=> PrivPresent(pkey[k]))]_vars

C8_Witness ==
  /\ \E k \in Keys : pkey[k].ptr /\ ~pkey[k].asPrivate /\ ~PrivPresent(pkey[k])
  /\ \E k \in Keys : pkey[k].asPrivate /\ PrivPresent(pkey[k])
  /\ last.op = "digestsign"

\* C9: pkey_oqs_digestsign calls OQS_SIG_sign only for a record with a private
\* key and a signature buffer; for a public-only record it returns 0, and for a
\* size query on a record with a private key it returns 1 with *siglen set to
\* max_sig_len, both without calling the engine.
C9_Sign ==
  last.op = "digestsign" =>
    LET o == pkey[last.k] IN
    /\ last.engine = "sign" => (PrivPresent(o) /\ ~last.flag)
    /\ (o.ptr /\ ~PrivPresent(o)) => (last.ret = 0 /\ last.engine = "none")
    /\ (PrivPresent(o) /\ last.flag)
         => (last.ret = 1 /\ last.siglen = MaxSigLen /\ last.engine = "none")

C9_Witness ==
  /\ last.op = "digestsign" /\ last.flag /\ PrivPresent(pkey[last.k])
  /\ last.ret = 1 /\ last.num < MaxSigLen

C10_Inv ==
  last.op = "ctrl" =>
    /\ last.ret = 1 <=>
         \/ last.arg = EVP_PKEY_CTRL_MD /\ last.flag
         \/ last.arg = EVP_PKEY_CTRL_DIGESTINIT
    /\ last.ret # 1 => last.ret <= 0

\* C10: pkey_oqs_ctrl returns 1 exactly for EVP_PKEY_CTRL_MD with a null digest
\* and for EVP_PKEY_CTRL_DIGESTINIT, returns a failure value for every other
\* request, and changes no key and no container.
C10_Ctrl ==
  /\ []C10_Inv
  /\ [][last'.op = "ctrl" => UNCHANGED <<pkey, pk, p8>>]_vars

C10_Witness ==
  /\ last.op = "ctrl" /\ last.arg \notin {EVP_PKEY_CTRL_MD, EVP_PKEY_CTRL_DIGESTINIT}
  /\ last.ret = -2
  /\ \E k \in Keys : pkey[k].ptr

=============================================================================
